---- MODULE Spec2Model ----
(***************************************************************************)
(* A model of the Daytona ADK plugin: one DaytonaPlugin that owns a remote *)
(* sandbox, the five tools that get_tools binds to it, and the host's      *)
(* lifecycle hooks.  The sandbox provider is the environment: every remote *)
(* call ends in one of the outcomes the provider can produce.              *)
(***************************************************************************)
EXTENDS Integers, Sequences, FiniteSets, TLC

\* ------------------------------------------------------------------ bounds
\* How many times the host calls get_tools (each call builds five tools).
MaxGetTools == 2
\* How many delete requests the provider is sent before the host gives up.
MaxDeleteCalls == 2
\* How many run_async calls one run of SpecArgs makes with arbitrary args.
MaxProbes == 2
\* How many execute_code invocations the host has in progress at once in
\* SpecConc.
MaxInFlight == 2

\* ------------------------------------------------------- Python values
\* A Python value is a tagged record; values of different types never share
\* a field, so they compare unequal.
PyNone == [t |-> "none"]
PyInt(i) == [t |-> "int", i |-> i]
PyBool(b) == [t |-> "bool", b |-> b]
\* A str that is only passed along, compared or formatted.
PyStr(s) == [t |-> "str", s |-> s]
\* A str that is encoded: its code points.
PyText(cp) == [t |-> "str", cp |-> cp]
PyList(l) == [t |-> "list", l |-> l]
PyDict(d) == [t |-> "dict", d |-> d]

IsStr(v) == v.t = "str"

\* Python's truth value of an object.
Truthy(v) ==
    CASE v.t = "none" -> FALSE
      [] v.t = "int" -> v.i # 0
      [] v.t = "bool" -> v.b
      [] v.t = "list" -> v.l # <<>>
      [] v.t = "dict" -> v.d # <<>>
      [] v.t = "str" -> IF "cp" \in DOMAIN v THEN v.cp # <<>> ELSE v.s # ""
      [] OTHER -> TRUE

\* args.get(key, default)
Get(a, key, default) == IF key \in DOMAIN a THEN a[key] ELSE default

\* No exception is propagating.
NoExc == "none"

\* The plugin's sandbox handle and its absence.
Sandbox == "Sandbox"
None == "None"

\* -------------------------------------------------------------- the state
VARIABLES
    plugin_sandbox,   \* DaytonaPlugin._sandbox: Sandbox or None
    tools,            \* per get_tools call, the sandbox its five tools captured
    remote,           \* the provider's side of the sandbox
    create_calls,     \* Daytona.create requests sent
    delete_calls,     \* Daytona.delete requests sent
    delete_ok,        \* Daytona.delete requests that succeeded
    op,               \* the operation the last step ran
    self,             \* the tool the last run_async ran on
    args,             \* the args of the last run_async
    ret,              \* what the last operation returned
    exc,              \* the exception the last operation let through
    calls,            \* the remote calls the last operation made, in order
    hook_saw_error,   \* after_tool_callback has processed a result with 'error'
    probes,           \* run_async calls counted against MaxProbes
    running           \* the execute_code invocations in progress, by host thread

vars == <<plugin_sandbox, tools, remote, create_calls, delete_calls, delete_ok,
          op, self, args, ret, exc, calls, hook_saw_error, probes, running>>

\* ----------------------------------------------------------- the provider
\* A path is a record, so that a generated path keeps the id it was built from.
UserPath == [dir |-> "/home/daytona", name |-> "a.txt"]
EmptyPath == [dir |-> "", name |-> ""]

\* The sandbox's files: a set of [path, bytes], at most one per path.
HasFile(files, p) == \E f \in files : f.path = p
FileBytes(files, p) == (CHOOSE f \in files : f.path = p).bytes
WriteFile(files, p, b) == {f \in files : f.path # p} \cup {[path |-> p, bytes |-> b]}
RemoveFile(files, p) == {f \in files : f.path # p}

\* A fresh sandbox holds no file.
FreshRemote == [alive |-> TRUE, files |-> {}, created |-> TRUE]
\* A deleted sandbox holds nothing.
GoneRemote == [alive |-> FALSE, files |-> {}, created |-> TRUE]
\* The provider rejected Daytona.create: there never was a sandbox.
NotCreated == [alive |-> FALSE, files |-> {}, created |-> FALSE]

\* A remote call: the API, whether the handle's sandbox was already deleted,
\* the path or session id it names (EmptyPath when it names none), the other
\* arguments the tool forwards, and how the provider answered: "ok", "fault"
\* or "timeout", with the response it returned (NoResp when it returned none
\* the tool reads).
Call(api, r, what, fwd, oc, resp) ==
    [api |-> api, gone |-> ~r.alive, what |-> what, fwd |-> fwd,
     oc |-> oc, resp |-> IF oc = "ok" THEN resp ELSE [nothing |-> TRUE]]
NoFwd == [nothing |-> TRUE]
NoResp == [nothing |-> TRUE]

\* What the provider can do with a call on a live sandbox.
ExecOutcomes == {"ok", "fault", "timeout"}
FileOutcomes == {"ok", "fault"}
\* The exit codes a finished process reports.
ExitCodes == {0, 1}

\* The provider's exception for an outcome that is not "ok".
Fault(oc) == IF oc = "timeout" THEN "DaytonaTimeoutError" ELSE "DaytonaError"

\* A call on a deleted sandbox can only fail.
Outcome(r, oc) == IF r.alive THEN oc ELSE "fault"

\* ------------------------------------------------------------------ UTF-8
EncodeError == <<-1>>

\* str.encode("utf-8") of one code point; a lone surrogate cannot be encoded.
EncodeCodePoint_latin1(c) == IF c < 256 THEN <<c>> ELSE EncodeError

EncodeCodePoint(c) ==
    IF c < 128 THEN <<c>>
    ELSE IF c < 2048 THEN <<192 + (c \div 64), 128 + (c % 64)>>
    ELSE IF c >= 55296 /\ c <= 57343 THEN EncodeError
    ELSE IF c < 65536
         THEN <<224 + (c \div 4096), 128 + ((c \div 64) % 64), 128 + (c % 64)>>
    ELSE <<240 + (c \div 262144), 128 + ((c \div 4096) % 64),
           128 + ((c \div 64) % 64), 128 + (c % 64)>>

RECURSIVE Utf8Encode(_)
Utf8Encode(cp) ==
    IF cp = <<>> THEN <<>>
    ELSE LET h == EncodeCodePoint(Head(cp))
             t == Utf8Encode(Tail(cp))
         IN IF h = EncodeError \/ t = EncodeError THEN EncodeError ELSE h \o t

DecodeError == <<-1>>
IsCont(b) == b >= 128 /\ b <= 191

\* bytes.decode("utf-8"), strict: overlong forms, surrogates and stray bytes fail.
RECURSIVE Utf8Decode(_)
Utf8Decode(b) ==
    IF b = <<>> THEN <<>>
    ELSE LET b1 == b[1]
             n == IF b1 < 128 THEN 1
                  ELSE IF b1 >= 194 /\ b1 <= 223 THEN 2
                  ELSE IF b1 >= 224 /\ b1 <= 239 THEN 3
                  ELSE IF b1 >= 240 /\ b1 <= 244 THEN 4
                  ELSE 0
         IN IF n = 0 \/ Len(b) < n \/ (\E i \in 2..n : ~IsCont(b[i])) THEN DecodeError
            ELSE LET c == CASE n = 1 -> b1
                            [] n = 2 -> (b1 - 192) * 64 + (b[2] - 128)
                            [] n = 3 -> (b1 - 224) * 4096 + (b[2] - 128) * 64 + (b[3] - 128)
                            [] n = 4 -> (b1 - 240) * 262144 + (b[2] - 128) * 4096
                                        + (b[3] - 128) * 64 + (b[4] - 128)
                     valid == CASE n = 1 -> TRUE
                                [] n = 2 -> TRUE
                                [] n = 3 -> c >= 2048 /\ ~(c >= 55296 /\ c <= 57343)
                                [] n = 4 -> c >= 65536 /\ c <= 1114111
                     rest == Utf8Decode(SubSeq(b, n + 1, Len(b)))
                 IN IF ~valid \/ rest = DecodeError THEN DecodeError ELSE <<c>> \o rest

\* ------------------------------------------------------------------ tools
\* The five tool classes, in the order get_tools builds them.
Kinds == <<"ExecuteCodeTool", "ExecuteCommandTool", "UploadFileTool", "ReadFileTool",
           "StartLongRunningCommandTool">>

KindIndex(kind) == CHOOSE i \in 1..Len(Kinds) : Kinds[i] = kind

\* id(self): distinct for the tool objects the host holds at the same time.
Id(g, kind) == Len(Kinds) * (g - 1) + KindIndex(kind)

\* A tool object: its class, the sandbox its constructor stored, its id.
Tool(g, kind, sandbox) == [g |-> g, kind |-> kind, sandbox |-> sandbox, id |-> Id(g, kind)]

\* What a run_async that raised hands back: nothing.
NoRet == [t |-> "raised"]

\* run_async let an exception through, before any remote call.
Raised(e, r) == [ret |-> NoRet, exc |-> e, calls |-> <<>>, remote |-> r]
\* run_async returned a result.
Returned(result, cs, r) == [ret |-> result, exc |-> NoExc, calls |-> cs, remote |-> r]

\* len(v) is defined.
HasLen(v) == v.t \in {"str", "list", "dict"}

\* str.lower() on the languages of the model.
Lower(s) ==
    CASE s = "JavaScript" -> "javascript"
      [] s = "Python" -> "python"
      [] s = "Ruby" -> "ruby"
      [] OTHER -> s

\* f"/tmp/script_{id(self)}.{ext}"
ScriptPath(id, ext) == [dir |-> "/tmp", name |-> "script_", id |-> id, ext |-> ext]

\* The provider's response to a run that finished.
Response(e) == [result |-> PyStr("out"), exit_code |-> PyInt(e.code)]

ExecFailure_keeps_result(e) ==
    [error |-> PyStr(e), exit_code |-> PyInt(-1), result |-> PyStr("")]

\* {"error": str(e), "exit_code": -1}
ExecFailure(e) == [error |-> PyStr(e), exit_code |-> PyInt(-1)]

\* The provider's choices during one run_async: the outcome of the upload, of
\* the run (code_run, exec or execute_session_command), of the file delete, of
\* the download and of create_session, the exit code and the session output.
Env(up, run, del, down, sess, code, out) ==
    [up |-> up, run |-> run, del |-> del, down |-> down, sess |-> sess,
     code |-> code, out |-> out]

\* {"result": response.result, "exit_code": response.exit_code}: the
\* provider's response as it is, whatever the exit code.
ExecResult_nonzero_is_error(e) ==
    IF e.code # 0 THEN ExecFailure("exit code")
    ELSE [result |-> Response(e).result, exit_code |-> Response(e).exit_code]

ExecResult(e) == [result |-> Response(e).result, exit_code |-> Response(e).exit_code]

\* process.exec raised in the JS/TS branch: control goes to the except block,
\* delete_file is skipped and the script stays in the sandbox r1.
ExecRaised_then_cleans(e, cR, r1, script_path) ==
    Returned(ExecFailure(e),
             cR \o <<Call("delete_file", r1, script_path, NoFwd, "ok", NoResp)>>,
             [r1 EXCEPT !.files = RemoveFile(@, script_path)])

ExecRaised(e, cR, r1, script_path) == Returned(ExecFailure(e), cR, r1)

\* {"error": f"Unsupported language: {language}", "exit_code": -1}
Unsupported_no_exit_code(language) ==
    [error |-> PyStr("Unsupported language: " \o language)]

Unsupported(language) ==
    [error |-> PyStr("Unsupported language: " \o language), exit_code |-> PyInt(-1)]

\* params = None; if env or argv: params = CodeRunParams(env=env, argv=argv)
CodeRunParams_needs_env(env, argv) ==
    IF Truthy(env) THEN [env |-> env, argv |-> argv] ELSE PyNone

CodeRunParams(env, argv) ==
    IF Truthy(env) \/ Truthy(argv) THEN [env |-> env, argv |-> argv] ELSE PyNone

\* ExecuteCodeTool.run_async
ExecuteCodeTool_run_async(slf, a, e, r) ==
    LET code == Get(a, "code", PyText(<<>>))
        lang == Get(a, "language", PyStr("python"))
        env == Get(a, "env", PyNone)
        argv == Get(a, "argv", PyNone)
        timeout == Get(a, "timeout", PyNone)
    IN  IF ~IsStr(lang) THEN Raised("AttributeError", r)      \* .lower() of a non-str
        ELSE IF ~HasLen(code) THEN Raised("TypeError", r)     \* len(code) in the log line
        ELSE
        LET language == Lower(lang.s) IN
        IF language = "python"
        THEN IF slf.sandbox = None
             THEN Returned(ExecFailure("AttributeError"), <<>>, r)
             ELSE LET oc == Outcome(r, e.run)
                      params == CodeRunParams(env, argv)
                      cs == <<Call("code_run", r, EmptyPath,
                                   [code |-> code, params |-> params, timeout |-> timeout],
                                   oc, Response(e))>>
                  IN  IF oc = "ok"
                      THEN Returned(ExecResult(e), cs, r)
                      ELSE Returned(ExecFailure(Fault(oc)), cs, r)
        ELSE IF language \in {"javascript", "typescript"}
        THEN LET ext == IF language = "javascript" THEN "js" ELSE "ts"
                 script_path == ScriptPath(slf.id, ext)
                 bytes == IF IsStr(code) /\ "cp" \in DOMAIN code
                          THEN Utf8Encode(code.cp) ELSE EncodeError
                 ocU == Outcome(r, e.up)
                 ocR == Outcome(r, e.run)
                 ocD == Outcome(r, e.del)
                 cmd == [run |-> IF language = "javascript" THEN "node" ELSE "ts-node",
                         script |-> script_path,
                         argv |-> IF Truthy(argv) THEN argv.l ELSE <<>>]
                 cU == <<Call("upload_file", r, script_path, [bytes |-> bytes], ocU, NoResp)>>
                 cR == cU \o <<Call("exec", r, script_path,
                                    [cmd |-> cmd, env |-> env, timeout |-> timeout],
                                    ocR, Response(e))>>
                 cD == cR \o <<Call("delete_file", r, script_path, NoFwd, ocD, NoResp)>>
                 r1 == IF r.alive
                       THEN [r EXCEPT !.files = WriteFile(r.files, script_path, bytes)]
                       ELSE r
                 r2 == [r1 EXCEPT !.files = RemoveFile(r1.files, script_path)]
             IN  IF ~IsStr(code) THEN Returned(ExecFailure("AttributeError"), <<>>, r)
                 ELSE IF slf.sandbox = None
                 THEN Returned(ExecFailure("AttributeError"), <<>>, r)
                 ELSE IF bytes = EncodeError
                 THEN Returned(ExecFailure("UnicodeEncodeError"), <<>>, r)
                 ELSE IF ocU # "ok" THEN Returned(ExecFailure(Fault(ocU)), cU, r)
                 ELSE IF ocR # "ok" THEN ExecRaised(Fault(ocR), cR, r1, script_path)
                 ELSE IF ocD # "ok" THEN Returned(ExecFailure(Fault(ocD)), cD, r1)
                 ELSE Returned(ExecResult(e), cD, r2)
        ELSE Returned(Unsupported(language), <<>>, r)

\* ExecuteCommandTool.run_async
ExecuteCommandTool_run_async_timeout_is_empty(slf, a, e, r) ==
    LET command == Get(a, "command", PyStr(""))
        cwd == Get(a, "cwd", PyNone)
        env == Get(a, "env", PyNone)
        timeout == Get(a, "timeout", PyNone)
    IN  IF ~IsStr(command) THEN Raised("TypeError", r)
        ELSE IF slf.sandbox = None
        THEN Returned(ExecFailure("AttributeError"), <<>>, r)
        ELSE LET oc == Outcome(r, e.run)
                 cs == <<Call("exec", r, EmptyPath,
                              [cmd |-> command, cwd |-> cwd, env |-> env,
                               timeout |-> timeout], oc, Response(e))>>
             IN  IF oc = "ok"
                 THEN Returned([result |-> Response(e).result,
                                exit_code |-> Response(e).exit_code], cs, r)
                 ELSE IF oc = "timeout"
                 THEN Returned([result |-> PyStr(""), exit_code |-> PyInt(0)], cs, r)
                 ELSE Returned(ExecFailure(Fault(oc)), cs, r)

ExecuteCommandTool_run_async(slf, a, e, r) ==
    LET command == Get(a, "command", PyStr(""))
        cwd == Get(a, "cwd", PyNone)
        env == Get(a, "env", PyNone)
        timeout == Get(a, "timeout", PyNone)
    IN  IF ~IsStr(command) THEN Raised("TypeError", r)        \* command[:100] in the log line
        ELSE IF slf.sandbox = None
        THEN Returned(ExecFailure("AttributeError"), <<>>, r)
        ELSE LET oc == Outcome(r, e.run)
                 cs == <<Call("exec", r, EmptyPath,
                              [cmd |-> command, cwd |-> cwd, env |-> env,
                               timeout |-> timeout], oc, Response(e))>>
             IN  IF oc = "ok"
                 THEN Returned(ExecResult(e), cs, r)
                 ELSE Returned(ExecFailure(Fault(oc)), cs, r)

\* {"error": str(e), "success": False}
UploadFailure(e) == [error |-> PyStr(e), success |-> PyBool(FALSE)]

\* UploadFileTool.run_async
UploadFileTool_run_async(slf, a, e, r) ==
    LET file_path == Get(a, "file_path", PyStr(EmptyPath))
        content == Get(a, "content", PyText(<<>>))
        content_bytes == Utf8Encode(content.cp)
        \* the client cannot upload to a path that is no text
        oc == IF IsStr(file_path) THEN Outcome(r, e.up) ELSE "fault"
        what == IF IsStr(file_path) THEN file_path.s ELSE EmptyPath
        cs == <<Call("upload_file", r, what, [bytes |-> content_bytes], oc, NoResp)>>
    IN  IF ~HasLen(content) THEN Raised("TypeError", r)       \* len(content) in the log line
        ELSE IF ~IsStr(content) THEN Returned(UploadFailure("AttributeError"), <<>>, r)
        ELSE IF content_bytes = EncodeError
        THEN Returned(UploadFailure("UnicodeEncodeError"), <<>>, r)
        ELSE IF slf.sandbox = None
        THEN Returned(UploadFailure("AttributeError"), <<>>, r)
        ELSE IF oc # "ok" THEN Returned(UploadFailure(Fault(oc)), cs, r)
        ELSE Returned([success |-> PyBool(TRUE), path |-> file_path], cs,
                      [r EXCEPT !.files = WriteFile(r.files, file_path.s, content_bytes)])

\* {"error": str(e), "content": None}
ReadFailure_empty_content(e) == [error |-> PyStr(e), content |-> PyText(<<>>)]

ReadFailure(e) == [error |-> PyStr(e), content |-> PyNone]

\* ReadFileTool.run_async
ReadFileTool_run_async(slf, a, e, r) ==
    LET file_path == Get(a, "file_path", PyStr(EmptyPath))
        \* a path that is no text, or that names no file, cannot be downloaded
        oc == IF IsStr(file_path) /\ HasFile(r.files, file_path.s)
              THEN Outcome(r, e.down) ELSE "fault"
        what == IF IsStr(file_path) THEN file_path.s ELSE EmptyPath
        cs == <<Call("download_file", r, what, NoFwd, oc, NoResp)>>
        content == Utf8Decode(FileBytes(r.files, file_path.s))
    IN  IF slf.sandbox = None THEN Returned(ReadFailure("AttributeError"), <<>>, r)
        ELSE IF oc # "ok" THEN Returned(ReadFailure(Fault(oc)), cs, r)
        ELSE IF content = DecodeError
        THEN Returned(ReadFailure("UnicodeDecodeError"), cs, r)
        ELSE Returned([content |-> PyText(content), path |-> file_path], cs, r)

\* f"long-running-{id(self)}"
SessionId(id) == [prefix |-> "long-running-", id |-> id]

\* SessionExecuteRequest(command=command, runAsync=True)
SessionExecuteRequest_blocking(command) == [command |-> command, runAsync |-> FALSE]

SessionExecuteRequest(command) == [command |-> command, runAsync |-> TRUE]

\* StartLongRunningCommandTool.run_async
StartLongRunningCommandTool_run_async(slf, a, e, r) ==
    LET command == Get(a, "command", PyStr(""))
        timeout == Get(a, "timeout", PyNone)
        session_id == SessionId(slf.id)
        ocS == Outcome(r, e.sess)
        ocR == Outcome(r, e.run)
        cS == <<Call("create_session", r, session_id, NoFwd, ocS, NoResp)>>
        cR == cS \o <<Call("execute_session_command", r, session_id,
                           [request |-> SessionExecuteRequest(command),
                            timeout |-> timeout],
                           ocR, [output |-> e.out, exit_code |-> PyInt(e.code)])>>
    IN  IF ~IsStr(command) THEN Raised("TypeError", r)        \* command[:100] in the log line
        ELSE IF slf.sandbox = None
        THEN Returned(ExecFailure("AttributeError"), <<>>, r)
        ELSE IF ocS # "ok" THEN Returned(ExecFailure(Fault(ocS)), cS, r)
        ELSE IF ocR # "ok" THEN Returned(ExecFailure(Fault(ocR)), cR, r)
        ELSE Returned([session_id |-> PyStr(session_id),
                       output |-> IF Truthy(e.out) THEN e.out ELSE PyStr(""),
                       exit_code |-> PyInt(e.code)], cR, r)

\* --------------------------------------------------------- DaytonaPlugin
\* What Daytona.delete can do: delete the sandbox, raise with the sandbox
\* still there, or raise after the sandbox went.
DeleteOutcomes == {"ok", "fault_kept", "fault_gone"}

\* destroy_sandbox: [ref, exc, calls, remote, ok] after the call.
destroy_sandbox_raises(ref, r, oc) ==
    IF ref # None
    THEN IF oc = "ok"
         THEN [ref |-> None, exc |-> NoExc, calls |-> <<Call("delete", r, EmptyPath, NoFwd, "ok", NoResp)>>,
               remote |-> GoneRemote, ok |-> 1]
         ELSE [ref |-> ref, exc |-> "DaytonaError", calls |-> <<Call("delete", r, EmptyPath, NoFwd, "fault", NoResp)>>,
               remote |-> IF oc = "fault_gone" THEN GoneRemote ELSE r, ok |-> 0]
    ELSE [ref |-> ref, exc |-> NoExc, calls |-> <<>>, remote |-> r, ok |-> 0]

destroy_sandbox_keeps_ref(ref, r, oc) ==
    IF ref # None
    THEN IF oc = "ok"
         THEN [ref |-> ref, exc |-> NoExc, calls |-> <<Call("delete", r, EmptyPath, NoFwd, "ok", NoResp)>>,
               remote |-> GoneRemote, ok |-> 1]
         ELSE [ref |-> ref, exc |-> NoExc, calls |-> <<Call("delete", r, EmptyPath, NoFwd, "fault", NoResp)>>,
               remote |-> IF oc = "fault_gone" THEN GoneRemote ELSE r, ok |-> 0]
    ELSE [ref |-> ref, exc |-> NoExc, calls |-> <<>>, remote |-> r, ok |-> 0]

destroy_sandbox(ref, r, oc) ==
    IF ref # None
    THEN IF oc = "ok"
         THEN \* delete returned: the reference is cleared
              [ref |-> None, exc |-> NoExc, calls |-> <<Call("delete", r, EmptyPath, NoFwd, "ok", NoResp)>>,
               remote |-> GoneRemote, ok |-> 1]
         ELSE \* delete raised: caught and printed, the reference is kept
              [ref |-> ref, exc |-> NoExc, calls |-> <<Call("delete", r, EmptyPath, NoFwd, "fault", NoResp)>>,
               remote |-> IF oc = "fault_gone" THEN GoneRemote ELSE r, ok |-> 0]
    ELSE [ref |-> ref, exc |-> NoExc, calls |-> <<>>, remote |-> r, ok |-> 0]

after_tool_callback_on_exit_code(ref, r, result, oc) ==
    IF "exit_code" \in DOMAIN result /\ result["exit_code"] # PyInt(0)
    THEN destroy_sandbox(ref, r, oc)
    ELSE [ref |-> ref, exc |-> NoExc, calls |-> <<>>, remote |-> r, ok |-> 0]

\* after_tool_callback: destroy_sandbox when the result has 'error'; returns None.
after_tool_callback(ref, r, result, oc) ==
    IF "error" \in DOMAIN result
    THEN destroy_sandbox(ref, r, oc)
    ELSE [ref |-> ref, exc |-> NoExc, calls |-> <<>>, remote |-> r, ok |-> 0]

\* before_agent_callback, after_agent_callback, before_tool_callback: return
\* None and touch nothing.
before_agent_callback(ref, r) ==
    [ref |-> ref, exc |-> NoExc, calls |-> <<>>, remote |-> r, ok |-> 0]

after_agent_callback(ref, r) ==
    [ref |-> ref, exc |-> NoExc, calls |-> <<>>, remote |-> r, ok |-> 0]

before_tool_callback_destroys(ref, r) == destroy_sandbox(ref, r, "ok")

before_tool_callback(ref, r) ==
    [ref |-> ref, exc |-> NoExc, calls |-> <<>>, remote |-> r, ok |-> 0]

\* get_tools: five new tools, each storing the plugin's current _sandbox.
get_tools_first_sandbox(ref, g) == [i \in 1..Len(Kinds) |-> Tool(g, Kinds[i], Sandbox)]

get_tools(ref, g) == [i \in 1..Len(Kinds) |-> Tool(g, Kinds[i], ref)]

\* ------------------------------------------------------------- the host
\* A key the host left out of args.
Absent == [t |-> "absent"]
Strip(c) == [k \in {k \in DOMAIN c : c[k] # Absent} |-> c[k]]

\* The values the host passes: left out, null, not text, text.
CodeVals == {Absent, PyNone, PyInt(7), PyText(<<112>>), PyText(<<55296>>)}
LanguageVals == {Absent, PyNone, PyStr("python"), PyStr("JavaScript"),
                 PyStr("typescript"), PyStr("ruby"), PyStr("Ruby")}
EnvVals == {Absent, PyDict(<<"K">>)}
ArgvVals == {Absent, PyList(<<"x">>)}
TimeoutVals == {Absent, PyInt(5)}
CommandVals == {Absent, PyNone, PyInt(7), PyStr("ls")}
CwdVals == {Absent, PyStr("/w")}
PathVals == {Absent, PyNone, PyStr(UserPath)}
ContentVals == {Absent, PyNone, PyText(<<65>>), PyText(<<233>>), PyText(<<8364, 128512>>),
                PyText(<<55296>>)}

\* Every code and language without options, and the options on runnable code.
ExecuteCodeArgs ==
    {Strip(c) : c \in [code : CodeVals, language : LanguageVals, env : {Absent},
                       argv : {Absent}, timeout : {Absent}]}
    \cup {Strip(c) : c \in [code : {PyText(<<112>>)},
                             language : {Absent, PyStr("JavaScript")},
                             env : EnvVals, argv : ArgvVals, timeout : TimeoutVals]}
ExecuteCommandArgs ==
    {Strip(c) : c \in [command : CommandVals, cwd : {Absent}, env : {Absent},
                       timeout : {Absent}]}
    \cup {Strip(c) : c \in [command : {PyStr("ls")}, cwd : CwdVals, env : EnvVals,
                             timeout : TimeoutVals]}
UploadFileArgs == {Strip(c) : c \in [file_path : PathVals, content : ContentVals]}
\* read_file is also asked for the script execute_code uploads and deletes.
ReadFileArgs ==
    {Strip(c) : c \in [file_path : PathVals \cup {PyStr(ScriptPath(1, "js"))}]}
StartLongRunningCommandArgs ==
    {Strip(c) : c \in [command : CommandVals, timeout : TimeoutVals]}

NoTool == [t |-> "none"]
NoArgs == [t |-> "none"]

\* A host thread that is in no run_async call.
Idle == [pc |-> "idle"]
InFlight == 1..MaxInFlight

\* The plugin was constructed.
Constructed == plugin_sandbox \in {Sandbox, None}
Unset == "unset"

\* DaytonaPlugin.__init__: Daytona.create returns the sandbox, or raises and
\* no plugin comes to be.
Init_swallows_create_fault ==
    /\ \E oc \in {"ok", "fault"} :
        /\ plugin_sandbox = IF oc = "ok" THEN Sandbox ELSE None
        /\ remote = IF oc = "ok" THEN FreshRemote ELSE NotCreated
        /\ exc = NoExc
    /\ tools = <<>>
    /\ create_calls = 1
    /\ delete_calls = 0
    /\ delete_ok = 0
    /\ op = "__init__"
    /\ self = NoTool
    /\ args = NoArgs
    /\ ret = PyNone
    /\ calls = <<>>
    /\ hook_saw_error = FALSE
    /\ probes = 0
    /\ running = [i \in InFlight |-> Idle]

Init ==
    /\ \E oc \in {"ok", "fault"} :
        /\ plugin_sandbox = IF oc = "ok" THEN Sandbox ELSE Unset
        /\ remote = IF oc = "ok" THEN FreshRemote ELSE NotCreated
        /\ exc = IF oc = "ok" THEN NoExc ELSE "DaytonaError"
    /\ tools = <<>>
    /\ create_calls = 1
    /\ delete_calls = 0
    /\ delete_ok = 0
    /\ op = "__init__"
    /\ self = NoTool
    /\ args = NoArgs
    /\ ret = PyNone
    /\ calls = <<>>
    /\ hook_saw_error = FALSE
    /\ probes = 0
    /\ running = [i \in InFlight |-> Idle]

\* The host calls get_tools.
GetTools ==
    /\ Constructed
    /\ Len(tools) < MaxGetTools
    /\ tools' = Append(tools, plugin_sandbox)
    /\ op' = "get_tools"
    /\ ret' = PyList(get_tools(plugin_sandbox, Len(tools) + 1))
    /\ exc' = NoExc
    /\ calls' = <<>>
    /\ self' = NoTool
    /\ args' = NoArgs
    /\ UNCHANGED <<plugin_sandbox, remote, create_calls, delete_calls, delete_ok,
                   hook_saw_error, probes, running>>

\* The host runs tool `kind` of get_tools call g with args a; the provider's
\* choices led to out.
RunAsync(g, kind, a, n, out) ==
    /\ probes' = probes + n
    /\ op' = "run_async"
    /\ self' = Tool(g, kind, tools[g])
    /\ args' = a
    /\ ret' = out.ret
    /\ exc' = out.exc
    /\ calls' = out.calls
    /\ remote' = out.remote
    /\ UNCHANGED <<plugin_sandbox, tools, create_calls, delete_calls, delete_ok,
                   hook_saw_error, running>>

\* The provider's choices that differ in what a tool sees: the first call that
\* fails and how, or every call succeeding with some exit code and output.
Ok(code, out) == Env("ok", "ok", "ok", "ok", "ok", code, out)
RunEnvs ==
    {Env("ok", "fault", "ok", "ok", "ok", 0, PyNone),
     Env("ok", "timeout", "ok", "ok", "ok", 0, PyNone)}
    \cup {Ok(code, PyNone) : code \in ExitCodes}
ExecuteCodeEnvs ==
    RunEnvs \cup {Env("fault", "ok", "ok", "ok", "ok", 0, PyNone),
                  Env("ok", "ok", "fault", "ok", "ok", 0, PyNone)}
ExecuteCommandEnvs == RunEnvs
UploadFileEnvs == {Env("fault", "ok", "ok", "ok", "ok", 0, PyNone), Ok(0, PyNone)}
ReadFileEnvs == {Env("ok", "ok", "ok", "fault", "ok", 0, PyNone), Ok(0, PyNone)}
StartLongRunningCommandEnvs ==
    RunEnvs \cup {Env("ok", "ok", "ok", "ok", "fault", 0, PyNone)}
    \cup {Ok(code, PyStr("out")) : code \in ExitCodes}

\* The tools the host holds, by get_tools call, and those of the last call.
Held == 1..Len(tools)
Latest == {Len(tools)} \cap Held

\* The host runs one tool of the get_tools calls in G with args from A.
ExecuteCodeOn(G, A, n) ==
    \E g \in G, a \in A, e \in ExecuteCodeEnvs :
        RunAsync(g, "ExecuteCodeTool", a, n,
                 ExecuteCodeTool_run_async(Tool(g, "ExecuteCodeTool", tools[g]), a, e, remote))

ExecuteCommandOn(G, A, n) ==
    \E g \in G, a \in A, e \in ExecuteCommandEnvs :
        RunAsync(g, "ExecuteCommandTool", a, n,
                 ExecuteCommandTool_run_async(Tool(g, "ExecuteCommandTool", tools[g]), a, e,
                                              remote))

UploadFileOn(G, A, n) ==
    \E g \in G, a \in A, e \in UploadFileEnvs :
        RunAsync(g, "UploadFileTool", a, n,
                 UploadFileTool_run_async(Tool(g, "UploadFileTool", tools[g]), a, e, remote))

ReadFileOn(G, A, n) ==
    \E g \in G, a \in A, e \in ReadFileEnvs :
        RunAsync(g, "ReadFileTool", a, n,
                 ReadFileTool_run_async(Tool(g, "ReadFileTool", tools[g]), a, e, remote))

StartLongRunningCommandOn(G, A, n) ==
    \E g \in G, a \in A, e \in StartLongRunningCommandEnvs :
        RunAsync(g, "StartLongRunningCommandTool", a, n,
                 StartLongRunningCommandTool_run_async(
                     Tool(g, "StartLongRunningCommandTool", tools[g]), a, e, remote))

\* A session of the host's agent: the calls a model makes when it follows the
\* declared schemas.
SessionCodeArgs ==
    {[code |-> PyText(<<112>>), language |-> PyStr("python")],
     [code |-> PyText(<<112>>), language |-> PyStr("javascript")],
     [code |-> PyText(<<112>>), language |-> PyStr("ruby")]}
SessionCommandArgs == {[command |-> PyStr("ls")]}
SessionUploadArgs == {[file_path |-> PyStr(UserPath), content |-> PyText(<<65>>)]}
SessionReadArgs == {[file_path |-> PyStr(UserPath)]}
SessionStartArgs == {[command |-> PyStr("ls")]}

ExecuteCode == ExecuteCodeOn(Held, SessionCodeArgs, 0)
ExecuteCommand == ExecuteCommandOn(Held, SessionCommandArgs, 0)
UploadFile == UploadFileOn(Held, SessionUploadArgs, 0)
ReadFile == ReadFileOn(Held, SessionReadArgs, 0)
StartLongRunningCommand == StartLongRunningCommandOn(Held, SessionStartArgs, 0)

\* What a plugin operation that may delete the sandbox leaves behind.
Teardown(name, d) ==
    /\ op' = name
    /\ plugin_sandbox' = d.ref
    /\ remote' = d.remote
    /\ exc' = d.exc
    /\ calls' = d.calls
    /\ ret' = PyNone
    /\ delete_calls' = delete_calls + Len(d.calls)
    /\ delete_ok' = delete_ok + d.ok
    /\ UNCHANGED <<tools, create_calls, probes, running>>

\* The host hands the result of the run_async that just returned to the hook.
AfterToolCallback ==
    /\ Constructed
    /\ op = "run_async"
    /\ exc = NoExc
    /\ plugin_sandbox = None \/ delete_calls < MaxDeleteCalls
    /\ \E oc \in DeleteOutcomes :
        Teardown("after_tool_callback", after_tool_callback(plugin_sandbox, remote, ret, oc))
    /\ hook_saw_error' = (hook_saw_error \/ "error" \in DOMAIN ret)
    /\ UNCHANGED <<self, args>>

\* The host's hooks around an agent run and before a tool call.
BeforeAgentCallback ==
    /\ Constructed
    /\ Teardown("before_agent_callback", before_agent_callback(plugin_sandbox, remote))
    /\ self' = NoTool
    /\ args' = NoArgs
    /\ UNCHANGED hook_saw_error

AfterAgentCallback ==
    /\ Constructed
    /\ Teardown("after_agent_callback", after_agent_callback(plugin_sandbox, remote))
    /\ self' = NoTool
    /\ args' = NoArgs
    /\ UNCHANGED hook_saw_error

BeforeToolCallback ==
    /\ Constructed
    /\ Teardown("before_tool_callback", before_tool_callback(plugin_sandbox, remote))
    /\ self' = NoTool
    /\ args' = NoArgs
    /\ UNCHANGED hook_saw_error

\* The host (or a test's fixture) calls destroy_sandbox.
DestroySandbox ==
    /\ Constructed
    /\ plugin_sandbox = None \/ delete_calls < MaxDeleteCalls
    /\ \E oc \in DeleteOutcomes :
        Teardown("destroy_sandbox", destroy_sandbox(plugin_sandbox, remote, oc))
    /\ self' = NoTool
    /\ args' = NoArgs
    /\ UNCHANGED hook_saw_error

\* close: destroy_sandbox, awaited by the host's cleanup.
Close ==
    /\ Constructed
    /\ plugin_sandbox = None \/ delete_calls < MaxDeleteCalls
    /\ \E oc \in DeleteOutcomes :
        Teardown("close", destroy_sandbox(plugin_sandbox, remote, oc))
    /\ self' = NoTool
    /\ args' = NoArgs
    /\ UNCHANGED hook_saw_error

Next ==
    \/ GetTools
    \/ ExecuteCode
    \/ ExecuteCommand
    \/ UploadFile
    \/ ReadFile
    \/ StartLongRunningCommand
    \/ BeforeAgentCallback
    \/ AfterAgentCallback
    \/ BeforeToolCallback
    \/ AfterToolCallback
    \/ DestroySandbox
    \/ Close

Spec == Init /\ [][Next]_vars

\* The tools on every args mapping: the plugin is set up and torn down as in
\* Spec, the host calls get_tools once (before or after the teardown) and then
\* makes up to MaxProbes calls with args of any shape.
NextArgs ==
    \/ probes = 0 /\ tools = <<>> /\ GetTools
    \/ probes = 0 /\ DestroySandbox
    \/ probes < MaxProbes /\ ExecuteCodeOn(Latest, ExecuteCodeArgs, 1)
    \/ probes < MaxProbes /\ ExecuteCommandOn(Latest, ExecuteCommandArgs, 1)
    \/ probes < MaxProbes /\ UploadFileOn(Latest, UploadFileArgs, 1)
    \/ probes < MaxProbes /\ ReadFileOn(Latest, ReadFileArgs, 1)
    \/ probes < MaxProbes /\ StartLongRunningCommandOn(Latest, StartLongRunningCommandArgs, 1)

SpecArgs == Init /\ [][NextArgs]_vars

\* ------------------------------------------- execute_code, call by call
\* The JavaScript/TypeScript branch of ExecuteCodeTool.run_async when the host
\* runs the tool from more than one thread: the client's calls block, so each
\* of upload_file, exec and delete_file is one step of its thread, and the
\* threads' steps interleave.  All threads hold the ExecuteCodeTool of the one
\* get_tools call.
ConcCodeArgs ==
    {[code |-> PyText(cp), language |-> PyStr(l)] :
        cp \in {<<112>>, <<113>>}, l \in {"javascript", "typescript"}}

\* The invocation's exec has not returned yet.
NoScript == [script |-> "none"]
\* The provider found no file at the script's path.
Missing == [script |-> "missing"]
\* The file the provider found at the script's path.
Script(b) == [script |-> "found", bytes |-> b]
ScriptAt(files, p) == IF HasFile(files, p) THEN Script(FileBytes(files, p)) ELSE Missing

\* run_async up to the script path: lines 71-90.
RunAsync_Begin ==
    \E i \in InFlight, a \in ConcCodeArgs :
        LET slf == Tool(1, "ExecuteCodeTool", tools[1])
            language == Lower(a.language.s)
            ext == IF language = "javascript" THEN "js" ELSE "ts"
        IN  /\ tools # <<>>
            /\ tools[1] = Sandbox
            /\ running[i] = Idle
            /\ running' = [running EXCEPT ![i] =
                              [pc |-> "upload_file", slf |-> slf, args |-> a,
                               script_path |-> ScriptPath(slf.id, ext),
                               bytes |-> Utf8Encode(a.code.cp), calls |-> <<>>,
                               ran |-> NoScript]]
            /\ UNCHANGED <<plugin_sandbox, tools, remote, create_calls, delete_calls,
                           delete_ok, op, self, args, ret, exc, calls, hook_saw_error,
                           probes>>

\* run_async returns result on thread i.
RunAsync_Return(i, result, cs) ==
    /\ op' = "run_async"
    /\ self' = running[i].slf
    /\ args' = running[i].args
    /\ ret' = result
    /\ exc' = NoExc
    /\ calls' = cs
    /\ running' = [running EXCEPT ![i] = Idle]
    /\ UNCHANGED <<plugin_sandbox, tools, create_calls, delete_calls, delete_ok,
                   hook_saw_error, probes>>

\* self.sandbox.fs.upload_file(code.encode("utf-8"), script_path): line 91.
RunAsync_Upload ==
    \E i \in InFlight, e \in {"ok", "fault"} :
        LET t == running[i]
            oc == Outcome(remote, e)
            cs == <<Call("upload_file", remote, t.script_path, [bytes |-> t.bytes],
                         oc, NoResp)>>
        IN  /\ t.pc = "upload_file"
            /\ IF oc = "ok"
               THEN /\ remote' = [remote EXCEPT
                                     !.files = WriteFile(@, t.script_path, t.bytes)]
                    /\ running' = [running EXCEPT ![i].pc = "exec", ![i].calls = cs]
                    /\ UNCHANGED <<plugin_sandbox, tools, create_calls, delete_calls,
                                   delete_ok, op, self, args, ret, exc, calls,
                                   hook_saw_error, probes>>
               ELSE /\ remote' = remote
                    /\ RunAsync_Return(i, ExecFailure(Fault(oc)), cs)

\* self.sandbox.process.exec(cmd, env=env, timeout=timeout): line 106.  The
\* command runs whatever file is at script_path at that moment.
RunAsync_Exec ==
    \E i \in InFlight, e \in {"ok", "fault"}, code \in ExitCodes :
        LET t == running[i]
            oc == Outcome(remote, e)
            found == ScriptAt(remote.files, t.script_path)
            \* node exits with a non-zero code when the script is not there
            exit == IF found = Missing THEN 1 ELSE code
            cs == t.calls \o
                  <<Call("exec", remote, t.script_path, NoFwd, oc,
                         Response([code |-> exit]))>>
        IN  /\ t.pc = "exec"
            /\ remote' = remote
            /\ IF oc = "ok"
               THEN /\ running' = [running EXCEPT ![i].pc = "delete_file",
                                                  ![i].calls = cs, ![i].ran = found]
                    /\ UNCHANGED <<plugin_sandbox, tools, create_calls, delete_calls,
                                   delete_ok, op, self, args, ret, exc, calls,
                                   hook_saw_error, probes>>
               ELSE RunAsync_Return(i, ExecFailure(Fault(oc)), cs)

\* self.sandbox.fs.delete_file(script_path) and the return: lines 107-109.
\* Deleting a file that is not there is a fault of the provider.
RunAsync_Delete ==
    \E i \in InFlight, e \in {"ok", "fault"} :
        LET t == running[i]
            found == ScriptAt(remote.files, t.script_path)
            oc == IF found = Missing THEN "fault" ELSE Outcome(remote, e)
            cs == t.calls \o
                  <<Call("delete_file", remote, t.script_path, NoFwd, oc, NoResp)>>
            response == t.calls[2].resp
        IN  /\ t.pc = "delete_file"
            /\ IF oc = "ok"
               THEN /\ remote' = [remote EXCEPT !.files = RemoveFile(@, t.script_path)]
                    /\ RunAsync_Return(i, [result |-> response.result,
                                           exit_code |-> response.exit_code], cs)
               ELSE /\ remote' = remote
                    /\ RunAsync_Return(i, ExecFailure(Fault(oc)), cs)

NextConc ==
    \/ tools = <<>> /\ GetTools
    \/ RunAsync_Begin
    \/ RunAsync_Upload
    \/ RunAsync_Exec
    \/ RunAsync_Delete

SpecConc == Init /\ [][NextConc]_vars

\* ----------------------------------------------------------------- claims
HasError(result) == "error" \in DOMAIN result
Destroyers == {"destroy_sandbox", "close"}
ExitCodeTools == {"ExecuteCodeTool", "ExecuteCommandTool", "StartLongRunningCommandTool"}

\* The tool's sentinel in a failure result.
Sentinel(kind, result) ==
    CASE kind \in ExitCodeTools ->
            "exit_code" \in DOMAIN result /\ result["exit_code"] = PyInt(-1)
      [] kind = "UploadFileTool" ->
            "success" \in DOMAIN result /\ result["success"] = PyBool(FALSE)
      [] kind = "ReadFileTool" ->
            "content" \in DOMAIN result /\ result["content"] = PyNone

SuccessFields(kind) ==
    CASE kind \in {"ExecuteCodeTool", "ExecuteCommandTool"} -> {"result", "exit_code"}
      [] kind = "UploadFileTool" -> {"success", "path"}
      [] kind = "ReadFileTool" -> {"content", "path"}
      [] kind = "StartLongRunningCommandTool" -> {"session_id", "output", "exit_code"}

FailureShape(kind, result) ==
    /\ HasError(result)
    /\ Sentinel(kind, result)
    /\ DOMAIN result \cap {"result", "path", "session_id", "output"} = {}

SuccessShape(kind, result) ==
    /\ SuccessFields(kind) \subseteq DOMAIN result
    /\ ~HasError(result)

\* run_async returned a result mapping.
RanAndReturned == op = "run_async" /\ exc = NoExc

\* C1: run_async returns a result mapping and lets no exception through, for
\* every args mapping (parameters left out, null or not text included) and
\* every outcome of the remote calls.
C1_RunAsyncNeverRaises == op = "run_async" => exc = NoExc

\* C2: once after_tool_callback has processed a result with 'error', the
\* plugin's sandbox is absent and every later run_async returns a failure shape.
C2_ErrorPoisonsSandbox ==
    hook_saw_error =>
        /\ plugin_sandbox = None
        /\ op = "run_async" => (exc = NoExc /\ FailureShape(self.kind, ret))

\* A step of after_tool_callback on the result in ret.
HookStep ==
    op' = "after_tool_callback" =>
        /\ ret' = PyNone
        /\ exc' = NoExc
        /\ HasError(ret) /\ plugin_sandbox # None =>
               /\ Len(calls') = 1
               /\ calls'[1].api = "delete"
               /\ delete_calls' = delete_calls + 1
        /\ ~HasError(ret) =>
               /\ calls' = <<>>
               /\ plugin_sandbox' = plugin_sandbox
               /\ remote' = remote
               /\ delete_calls' = delete_calls

\* C3: after_tool_callback returns None and raises nothing; when the result
\* has 'error' and the plugin holds a sandbox it sends the delete request; when
\* the result has no 'error' it makes no call and leaves the sandbox reference
\* and the provider as they were.
C3_HookTearsDownIffError == [][HookStep]_vars

\* The hook tore the sandbox down after execute_code refused a language.
C3_Witness ==
    /\ op = "after_tool_callback"
    /\ self.kind = "ExecuteCodeTool"
    /\ args["language"] = PyStr("ruby")
    /\ Len(calls) = 1
    /\ plugin_sandbox = None

\* C4: after destroy_sandbox or close returns, the plugin's sandbox reference
\* is absent, whether the provider's delete succeeded or raised.
C4_ReferenceAbsentAfterDestroy == op \in Destroyers => plugin_sandbox = None

\* A destroy_sandbox/close step that follows another.
SecondDestroyStep ==
    op \in Destroyers /\ op' \in Destroyers =>
        /\ exc = NoExc
        /\ exc' = NoExc
        /\ calls # <<>> => calls' = <<>>

\* C5: of two destroy_sandbox/close calls in a row at most one sends a delete
\* request, and neither raises.
C5_SecondDestroySendsNoDelete == [][SecondDestroyStep]_vars

\* C6: destroy_sandbox, close and after_tool_callback return normally whether
\* the provider's delete succeeds or raises.
C6_TeardownFaultSwallowed ==
    op \in Destroyers \cup {"after_tool_callback"} => exc = NoExc

\* The hook sent a delete that raised: the call was made, the reference is kept.
C6_Witness ==
    /\ op = "after_tool_callback"
    /\ Len(calls) = 1
    /\ plugin_sandbox = Sandbox

\* A step taken after a delete has succeeded.
AfterDeleteStep ==
    delete_ok = 1 =>
        /\ delete_calls' = delete_calls
        /\ delete_ok' = delete_ok
        /\ plugin_sandbox' = None
        /\ create_calls' = create_calls

\* C7: create is called once; delete succeeds at most once; once a delete has
\* succeeded the reference stays absent and no further delete request is sent.
C7_DestroyedIsAbsorbing ==
    /\ [](create_calls = 1 /\ delete_ok <= 1 /\ (delete_ok = 1 => plugin_sandbox = None))
    /\ [][AfterDeleteStep]_vars

\* After the hook tore the sandbox down, a destroy_sandbox did nothing.
C7_Witness ==
    /\ delete_ok = 1
    /\ hook_saw_error
    /\ op = "destroy_sandbox"
    /\ calls = <<>>

\* C8: once the sandbox has been destroyed no tool makes a remote call on it.
C8_NoCallOnDestroyedSandbox ==
    op = "run_async" /\ delete_ok > 0 => calls = <<>>

\* C9: every result of a tool is a failure shape ('error', the tool's sentinel,
\* no success payload) or a success shape (the tool's success fields, no
\* 'error').
C9_OneShape ==
    RanAndReturned => FailureShape(self.kind, ret) \/ SuccessShape(self.kind, ret)

\* read_file returned the content of a file an earlier call uploaded.
C9_Witness ==
    /\ RanAndReturned
    /\ self.kind = "ReadFileTool"
    /\ SuccessShape(self.kind, ret)
    /\ ret["content"] = PyText(<<233>>)

StartedSession ==
    RanAndReturned /\ self.kind = "StartLongRunningCommandTool" /\ ~HasError(ret)

\* A start_long_running_command that succeeds right after another.
TwoSessionsStep ==
    StartedSession /\ StartedSession' => ret'["session_id"] # ret["session_id"]

\* C10: a successful start_long_running_command returns a session_id with
\* the prefix 'long-running-', and two calls return different session_ids.
C10_SessionIdUniquePerCall ==
    /\ [](StartedSession => ret["session_id"].s.prefix = "long-running-")
    /\ [][TwoSessionsStep]_vars

\* C11: any two JavaScript/TypeScript execute_code invocations in progress at
\* the same time against the one sandbox use different script paths, so that
\* the script an invocation's exec ran is the script that invocation uploaded.
C11_ScriptPathsDistinct ==
    /\ \A i, j \in InFlight :
          (i # j /\ running[i] # Idle /\ running[j] # Idle)
              => running[i].script_path # running[j].script_path
    /\ \A i \in InFlight :
          running[i] # Idle => running[i].ran \in {NoScript, Script(running[i].bytes)}

\* The languages execute_code runs, and an execute_code call whose language
\* is text that, lower-cased as the tool compares it, is none of them.
Supported == {"python", "javascript", "typescript"}
UnsupportedLanguage(a) ==
    /\ "language" \in DOMAIN a
    /\ IsStr(a.language)
    /\ Lower(a.language.s) \notin Supported
\* The code is text, or left out.
TextCode(a) == IsStr(Get(a, "code", PyText(<<>>)))

\* C12: execute_code with text code and a language outside python, javascript
\* and typescript makes no remote call and returns error 'Unsupported
\* language: <language>' (the language in lower case, as the tool compares it)
\* with exit_code -1 and nothing else.
C12_UnsupportedLanguage ==
    (op = "run_async" /\ self.kind = "ExecuteCodeTool"
        /\ UnsupportedLanguage(args) /\ TextCode(args))
    => /\ calls = <<>>
       /\ exc = NoExc
       /\ ret = [error |-> PyStr("Unsupported language: " \o Lower(args.language.s)),
                 exit_code |-> PyInt(-1)]

C12_Witness ==
    /\ op = "run_async" /\ self.kind = "ExecuteCodeTool"
    /\ self.sandbox = Sandbox /\ remote.alive
    /\ "language" \in DOMAIN args /\ args.language = PyStr("Ruby")
    /\ TextCode(args)
    /\ ret = [error |-> PyStr("Unsupported language: ruby"), exit_code |-> PyInt(-1)]
    /\ calls = <<>>

\* The provider reported that a call of the last operation ran out of time.
TimedOut == \E k \in DOMAIN calls : calls[k].oc = "timeout"

\* C13: when the provider reports a timeout to execute_code, execute_command
\* or start_long_running_command, the tool returns a result with 'error' and
\* exit_code -1, never a success result with exit_code 0.
C13_TimeoutIsFailure ==
    (op = "run_async" /\ self.kind \in ExitCodeTools /\ TimedOut)
    => /\ exc = NoExc
       /\ HasError(ret)
       /\ "exit_code" \in DOMAIN ret /\ ret["exit_code"] = PyInt(-1)
       /\ "result" \notin DOMAIN ret

C13_Witness ==
    /\ op = "run_async" /\ self.kind = "ExecuteCommandTool"
    /\ "timeout" \in DOMAIN args /\ args.timeout = PyInt(5)
    /\ Len(calls) = 1 /\ calls[1].api = "exec" /\ calls[1].oc = "timeout"
    /\ calls[1].fwd.timeout = PyInt(5)
    /\ ret = [error |-> PyStr("DaytonaTimeoutError"), exit_code |-> PyInt(-1)]

\* upload_file has just returned success, and the next operation is read_file
\* on the path that was uploaded to.
FilePath(a) == Get(a, "file_path", PyStr(EmptyPath))
UploadThenRead ==
    /\ op = "run_async" /\ self.kind = "UploadFileTool" /\ exc = NoExc
    /\ "success" \in DOMAIN ret /\ ret["success"] = PyBool(TRUE)
    /\ op' = "run_async" /\ self'.kind = "ReadFileTool"
    /\ FilePath(args') = FilePath(args)
\* The read's result: the uploaded text under the requested path.
ReadBack ==
    /\ exc' = NoExc
    /\ ret' = [content |-> Get(args, "content", PyText(<<>>)), path |-> FilePath(args')]

\* C14 as claimed: a successful upload_file followed directly by read_file on
\* the same path returns a success result with the uploaded text as content
\* and the requested path as path.
UploadThenReadStep == UploadThenRead => ReadBack
C14_RoundTrip == [][UploadThenReadStep]_vars

\* C14 amended: a successful upload_file followed directly by read_file on
\* the same path returns, when the provider's download itself succeeds, a
\* success result with the uploaded text as content and the requested path
\* as path; when the download faults the read returns a failure result.
UploadThenDownloadStep ==
    UploadThenRead
    => /\ Len(calls') = 1 /\ calls'[1].api = "download_file"
       /\ calls'[1].oc = "ok" => ReadBack
       /\ calls'[1].oc # "ok" => (exc' = NoExc /\ FailureShape("ReadFileTool", ret'))
C14_RoundTripWhenDownloaded == [][UploadThenDownloadStep]_vars

C14_Witness ==
    /\ op = "run_async" /\ self.kind = "ReadFileTool"
    /\ Len(calls) = 1 /\ calls[1].oc = "ok"
    /\ args = [file_path |-> PyStr(UserPath)]
    /\ ret = [content |-> PyText(<<8364, 128512>>), path |-> PyStr(UserPath)]

\* C15: read_file on a path that names no file of the sandbox (never
\* uploaded, or deleted) returns a failure result: 'error' present, content
\* null, and no 'path'.
C15_ReadMissingFile ==
    (op = "run_async" /\ self.kind = "ReadFileTool" /\ IsStr(FilePath(args))
        /\ ~HasFile(remote.files, FilePath(args).s))
    => /\ exc = NoExc
       /\ HasError(ret)
       /\ "content" \in DOMAIN ret /\ ret["content"] = PyNone
       /\ "path" \notin DOMAIN ret

\* read_file of the script that the execute_code call before it deleted.
C15_Witness ==
    /\ op = "run_async" /\ self.kind = "ReadFileTool"
    /\ self.sandbox = Sandbox /\ remote.alive
    /\ args = [file_path |-> PyStr(ScriptPath(1, "js"))]
    /\ probes = 2
    /\ ~HasFile(remote.files, ScriptPath(1, "js"))
    /\ Len(calls) = 1 /\ calls[1].api = "download_file"
    /\ ret = [error |-> PyStr("DaytonaError"), content |-> PyNone]

\* The tools of the last get_tools call are the five tools in order.
FiveToolsInOrder(l) ==
    /\ Len(l) = 5
    /\ <<l[1].kind, l[2].kind, l[3].kind, l[4].kind, l[5].kind>>
         = <<"ExecuteCodeTool", "ExecuteCommandTool", "UploadFileTool", "ReadFileTool",
             "StartLongRunningCommandTool">>

\* C16 as claimed: whenever get_tools is called it returns the five tools in
\* order, every one bound to the plugin's live sandbox.
C16_ToolsBoundToLiveSandbox ==
    op = "get_tools"
    => /\ FiveToolsInOrder(ret.l)
       /\ \A i \in 1..Len(ret.l) : ret.l[i].sandbox = Sandbox
       /\ remote.alive

\* C16 amended: whenever and however often get_tools is called it returns
\* the five tools in order, every one bound to the value the plugin's sandbox
\* reference has at that moment (the sandbox handle, or nothing once a
\* teardown cleared it); it makes no remote call and changes no plugin state.
GetToolsStep ==
    (op' = "get_tools" /\ tools' # tools)
    => /\ exc' = NoExc
       /\ FiveToolsInOrder(ret'.l)
       /\ \A i \in 1..Len(ret'.l) : ret'.l[i].sandbox = plugin_sandbox
       /\ calls' = <<>>
       /\ UNCHANGED <<plugin_sandbox, remote, create_calls, delete_calls, delete_ok>>
C16_GetToolsPureAccessor == [][GetToolsStep]_vars

\* A second get_tools call, made after the teardown cleared the reference.
C16_Witness ==
    /\ op = "get_tools" /\ Len(tools) = 2
    /\ plugin_sandbox = None /\ delete_ok = 1
    /\ FiveToolsInOrder(ret.l)
    /\ \A i \in 1..Len(ret.l) : ret.l[i].sandbox = None
    /\ calls = <<>>

\* C17: when the provider rejects the creation request, construction raises
\* the provider's fault: no plugin holds a sandbox reference, get_tools is
\* never called, no tool is built, no remote call follows and no delete
\* request is ever sent.
C17_CreateFaultFailsConstruction ==
    ~remote.created
    => /\ plugin_sandbox = Unset
       /\ op = "__init__" /\ exc = "DaytonaError"
       /\ tools = <<>>
       /\ calls = <<>>
       /\ create_calls = 1 /\ delete_calls = 0

C17_Witness ==
    /\ ~remote.created
    /\ op = "__init__" /\ exc = "DaytonaError"
    /\ ~Constructed

NoOpHooks == {"before_agent_callback", "after_agent_callback", "before_tool_callback"}

\* C18: the before-agent, after-agent and before-tool hooks return None, make
\* no remote call and leave the plugin's sandbox reference, the sandbox and
\* the tools as they were.
NoOpHookStep ==
    op' \in NoOpHooks
    => /\ ret' = PyNone
       /\ exc' = NoExc
       /\ calls' = <<>>
       /\ UNCHANGED <<plugin_sandbox, remote, tools, create_calls, delete_calls,
                      delete_ok>>
C18_HooksAreNoOps == [][NoOpHookStep]_vars

C18_Witness ==
    /\ op = "before_tool_callback"
    /\ plugin_sandbox = Sandbox /\ remote.alive /\ tools # <<>>
    /\ HasFile(remote.files, UserPath)
    /\ ret = PyNone /\ calls = <<>>

\* The last operation was execute_code in JavaScript or TypeScript and reached
\* the provider; the path of its script.
ScriptRun ==
    /\ op = "run_async" /\ self.kind = "ExecuteCodeTool" /\ exc = NoExc
    /\ "language" \in DOMAIN args /\ IsStr(args.language)
    /\ Lower(args.language.s) \in {"javascript", "typescript"}
    /\ calls # <<>>
RunScriptPath ==
    ScriptPath(self.id, IF Lower(args.language.s) = "javascript" THEN "js" ELSE "ts")
Apis(cs) == [k \in DOMAIN cs |-> cs[k].api]

\* C19: in the JavaScript/TypeScript branch the remote calls are upload_file,
\* then exec, then delete_file, all on the one script path.  When upload and
\* exec both return, with whatever exit code, delete_file is requested
\* before the result is returned, and the file is gone when the provider
\* carried it out.  When upload_file raises, exec is not attempted.  When
\* exec raises, delete_file is not attempted and the script stays in the
\* sandbox.
C19_UploadExecDelete ==
    ScriptRun
    => /\ Apis(calls) \in {<<"upload_file">>, <<"upload_file", "exec">>,
                           <<"upload_file", "exec", "delete_file">>}
       /\ \A k \in DOMAIN calls : calls[k].what = RunScriptPath
       /\ calls[1].fwd.bytes = Utf8Encode(Get(args, "code", PyText(<<>>)).cp)
       /\ \A k \in 1..(Len(calls) - 1) : calls[k].oc = "ok"
       /\ calls[1].oc # "ok" => (Len(calls) = 1 /\ HasError(ret))
       /\ calls[1].oc = "ok" => Len(calls) >= 2
       /\ (Len(calls) >= 2 /\ calls[2].oc # "ok")
            => /\ Len(calls) = 2
               /\ HasError(ret)
               /\ HasFile(remote.files, RunScriptPath)
       /\ (Len(calls) >= 2 /\ calls[2].oc = "ok")
            => /\ Len(calls) = 3
               /\ calls[3].oc = "ok"
                    => /\ ~HasFile(remote.files, RunScriptPath)
                       /\ ret = [result |-> calls[2].resp.result,
                                 exit_code |-> calls[2].resp.exit_code]

\* A script that ran with a non-zero exit code and was deleted.
C19_Witness ==
    /\ ScriptRun
    /\ Apis(calls) = <<"upload_file", "exec", "delete_file">>
    /\ calls[3].oc = "ok"
    /\ ret = [result |-> PyStr("out"), exit_code |-> PyInt(1)]
    /\ ~HasFile(remote.files, RunScriptPath)

\* The provider carried out every call of the last execute_code or
\* execute_command and the run ended with a non-zero exit code.
RunCalls == {k \in DOMAIN calls : calls[k].api \in {"exec", "code_run"}}
NonZeroExit ==
    /\ op = "run_async" /\ self.kind \in {"ExecuteCodeTool", "ExecuteCommandTool"}
    /\ exc = NoExc
    /\ \A k \in DOMAIN calls : calls[k].oc = "ok"
    /\ \E k \in RunCalls : calls[k].resp.exit_code # PyInt(0)

\* C20: when the provider completes execute_command or execute_code with a
\* non-zero exit code, the tool returns {result, exit_code} with the
\* provider's output and exit code unchanged and without 'error', and the
\* after-tool hook that is handed this result sends no delete request and
\* leaves the sandbox reference and the sandbox as they were.
NonZeroExitStep ==
    NonZeroExit
    => /\ \A k \in RunCalls : ret = [result |-> calls[k].resp.result,
                                      exit_code |-> calls[k].resp.exit_code]
       /\ op' = "after_tool_callback"
            => /\ calls' = <<>>
               /\ ret' = PyNone
               /\ UNCHANGED <<plugin_sandbox, remote, delete_calls, delete_ok>>
C20_NonZeroExitIsSuccess == [][NonZeroExitStep]_vars

\* execute_command returned the provider's exit code 1 as a success result.
C20_Witness ==
    /\ NonZeroExit /\ self.kind = "ExecuteCommandTool"
    /\ ret = [result |-> PyStr("out"), exit_code |-> PyInt(1)]
    /\ plugin_sandbox = Sandbox /\ remote.alive /\ delete_calls = 0

\* The last operation was start_long_running_command and reached the
\* provider.
StartRun ==
    /\ op = "run_async" /\ self.kind = "StartLongRunningCommandTool" /\ exc = NoExc
    /\ calls # <<>>

\* C21: start_long_running_command first creates a session with the
\* generated id and only then submits the command to that same session, as
\* an asynchronous execution with the given timeout.  When create_session
\* raises no command is submitted and the result is {error, exit_code: -1}.
\* On success session_id is the id of the session the command was submitted
\* to, and output is '' when the provider returned none.
C21_SessionThenCommand ==
    StartRun
    => /\ Apis(calls) \in {<<"create_session">>,
                           <<"create_session", "execute_session_command">>}
       /\ calls[1].what = SessionId(self.id)
       /\ calls[1].oc # "ok"
            => /\ Len(calls) = 1
               /\ DOMAIN ret = {"error", "exit_code"}
               /\ ret["exit_code"] = PyInt(-1)
       /\ calls[1].oc = "ok"
            => /\ Len(calls) = 2
               /\ calls[2].what = calls[1].what
               /\ calls[2].fwd.request = [command |-> Get(args, "command", PyStr("")),
                                          runAsync |-> TRUE]
               /\ calls[2].fwd.timeout = Get(args, "timeout", PyNone)
               /\ calls[2].oc = "ok"
                    => /\ DOMAIN ret = {"session_id", "output", "exit_code"}
                       /\ ret["session_id"] = PyStr(calls[2].what)
                       /\ ret["output"] = IF calls[2].resp.output = PyNone
                                          THEN PyStr("") ELSE calls[2].resp.output
                       /\ ret["exit_code"] = calls[2].resp.exit_code

\* A command started with a timeout; the provider returned no output.
C21_Witness ==
    /\ StartRun
    /\ args = [command |-> PyStr("ls"), timeout |-> PyInt(5)]
    /\ Apis(calls) = <<"create_session", "execute_session_command">>
    /\ calls[2].oc = "ok" /\ calls[2].resp.output = PyNone
    /\ calls[2].fwd.timeout = PyInt(5)
    /\ ret = [session_id |-> PyStr(SessionId(self.id)), output |-> PyStr(""),
              exit_code |-> PyInt(0)]

\* The last operation was execute_code on text code in python (the language
\* given in any case, or left out), by a tool that holds the sandbox handle.
PythonRun ==
    /\ op = "run_async" /\ self.kind = "ExecuteCodeTool"
    /\ self.sandbox = Sandbox
    /\ TextCode(args)
    /\ "language" \in DOMAIN args
         => (IsStr(args.language) /\ Lower(args.language.s) = "python")
\* An argument the host gave, None when it left it out.
Given(key) == Get(args, key, PyNone)

\* C22: execute_code in python makes exactly one remote call, code_run, with
\* the code, the given env and argv (as CodeRunParams, None when neither is
\* given) and the given timeout; it uploads, execs and deletes nothing; when
\* the provider responds the result is {result, exit_code} of the response,
\* and when it faults the result is the failure result.
C22_PythonIsOneCodeRun ==
    PythonRun
    => /\ exc = NoExc
       /\ Apis(calls) = <<"code_run">>
       /\ calls[1].fwd.code = Get(args, "code", PyText(<<>>))
       /\ calls[1].fwd.params =
             IF Given("env") = PyNone /\ Given("argv") = PyNone THEN PyNone
             ELSE [env |-> Given("env"), argv |-> Given("argv")]
       /\ calls[1].fwd.timeout = Given("timeout")
       /\ calls[1].oc = "ok"
            => ret = [result |-> calls[1].resp.result,
                      exit_code |-> calls[1].resp.exit_code]
       /\ calls[1].oc # "ok" => FailureShape("ExecuteCodeTool", ret)

\* Python by default, with argv and a timeout but no env; the code exited 1.
C22_Witness ==
    /\ PythonRun
    /\ args = [code |-> PyText(<<112>>), argv |-> PyList(<<"x">>), timeout |-> PyInt(5)]
    /\ Apis(calls) = <<"code_run">> /\ calls[1].oc = "ok"
    /\ calls[1].fwd.params = [env |-> PyNone, argv |-> PyList(<<"x">>)]
    /\ ret = [result |-> PyStr("out"), exit_code |-> PyInt(1)]
    /\ remote.files = {}

\* The last operation was a JavaScript/TypeScript execute_code whose script
\* ran (exec returned a response) and whose delete_file then raised.
DeleteRaised ==
    /\ op = "run_async" /\ self.kind = "ExecuteCodeTool" /\ exc = NoExc
    /\ Apis(calls) = <<"upload_file", "exec", "delete_file">>
    /\ calls[2].oc = "ok"
    /\ calls[3].oc # "ok"

\* C23: when the script ran but delete_file raised, the call returns
\* {error, exit_code: -1} without the run's output and exit code, and the
\* after-tool hook that is handed this result tears the sandbox down: the
\* sandbox is deleted and the plugin's reference to it is absent.
DeleteRaisedStep ==
    DeleteRaised
    => /\ DOMAIN ret = {"error", "exit_code"}
       /\ ret["exit_code"] = PyInt(-1)
       /\ op' = "after_tool_callback"
            => /\ plugin_sandbox' = None
               /\ ~remote'.alive
C23_CleanupFailureTearsDown == [][DeleteRaisedStep]_vars

====
